---- MODULE Spec2Model ----
(***************************************************************************)
(* Post-call pipeline of postcall-agents-system: the Celery worker         *)
(* process_call_recording and the calls API that feeds it, the Call model  *)
(* of backend/app, the provider fallback of the transcription and AI       *)
(* services, the CRM connectors and the CRM configuration's quota.         *)
(*                                                                         *)
(* The repository keeps several unconnected copies of the pipeline; each   *)
(* copy is its own specification over the variables it touches:            *)
(*   Spec       workers/call_processing.py + api/v1/calls.py               *)
(*   SpecCall   app/models/call.py + the reprocess operations              *)
(*   SpecProviders  services/transcription_service.py + ai_service.py      *)
(*   SpecJobs   job_runner.py + core/database.py                           *)
(*   SpecCrm    workers/webhooks.py + integrations/crm                     *)
(*   SpecQuota  app/models/crm_config.py                                   *)
(*   SpecAnalysis  services/ai_service.py + the rows the worker stores     *)
(*   SpecBackoff   the countdowns of self.retry                            *)
(*   SpecWebhooks  workers/webhooks.py, trigger_webhooks                   *)
(* Provider calls return or raise; which of the two is an input.           *)
(***************************************************************************)
EXTENDS Integers, Sequences, FiniteSets, TLC

\* ------------------------------------------------------------------ bounds

\* Task slots of the processing queue: deliveries of process_call_recording
\* and process_text_transcript that can exist for the one call.
MaxTasks == 2

Tasks == 1..MaxTasks

\* ------------------------------------------------------- program constants

\* @celery_app.task(..., max_retries=3, ...) of process_call_recording
max_retries == 3

NULL == "null"

\* Every status string the code writes or accepts: CallStatus of
\* app/models/call.py plus "queued", which only the API writes.
CallStatus ==
  {"pending", "processing", "transcribing", "analyzing", "updating_crm",
   "sending_email", "completed", "failed", "cancelled"}

StatusStrings == CallStatus \cup {"queued"}

\* The status values PATCH /calls/{id} is called with here: a cancellation
\* and one other write.
UpdateStatuses == {"cancelled", "pending"}

VARIABLES
  \* --- the call row and its child rows (backend/models) ---
  status,            \* calls.status
  recording_url,     \* TRUE when calls.recording_url is set
  transcripts,       \* number of rows of transcripts for the call
  insights,          \* number of rows of insights for the call
  quality_metrics,   \* number of rows of quality_metrics for the call
  processing_error,  \* error detail of the call; the worker has no such column
  \* --- the processing queue ---
  pc,                \* task slot -> position of that delivery
  retries,           \* task slot -> self.request.retries
  dup,               \* task slot -> <<t, when>>: the slot holds a second
                     \* delivery of slot t's message, made while t was
                     \* "running" or after it "returned"; <<0, "none">> else
  apiPc,             \* the API request between .delay() and its commit
  webhook_tasks,     \* trigger_webhooks.delay calls made
  crm_tasks          \* sync_call_to_crm.delay calls made

workerVars ==
  <<status, recording_url, transcripts, insights, quality_metrics,
    processing_error, pc, retries, dup, apiPc, webhook_tasks, crm_tasks>>

\* The Call model of backend/app (app/models/call.py), one record:
\*   status, processing_started_at, processing_completed_at,
\*   processing_error, processing_attempts, insights, quality_metrics,
\*   crm_update_result
VARIABLE call

\* One invocation each of TranscriptionService.transcribe_audio and of
\* AIService.analyze_call: the settings and provider outcomes it runs with
\* and what it returned.
VARIABLES
  t_in,    \* [primary, keys, healthy] of the transcription service
  t_out,   \* what the invocation returned: [result, calls]
  a_in,    \* [primary, clients, healthy] of the AI service
  a_out    \* what the invocation returned: [result, calls]

\* The call_jobs table of core/database.py and the workers of job_runner.py.
VARIABLES
  jobs,    \* job -> [status, analysis_result, crm_sync_status]
  jpc,     \* job -> position of process_call_job
  org      \* job -> crm_type of the job's organization

\* The contact records of one prospect in the remote CRM and the runs of the
\* CRM sync for the one call: deliveries of sync_call_to_crm
\* (workers/webhooks.py) and calls of upsert_contact (integrations/crm).
VARIABLES
  prospect,  \* [company_name, email]: which of the two the analysis found
  remote,    \* number of contact records of the prospect in the CRM
  spc,       \* sync run -> position
  sretries,  \* sync run -> self.request.retries
  searched,  \* sync run -> what search_contact gave upsert_contact
  sync_logs  \* rows of the CRM sync log that carry a crm_entity_id

\* The crm_configs row of one tenant (app/models/crm_config.py) and the sync
\* attempts that work on their own loaded copy of it.
VARIABLES
  crm_config,  \* [connection_status, is_active, rate_limit_remaining,
               \*  rate_limit_reset, quota_used, quota_limit]
  qpc,       \* sync attempt -> position
  qcopy      \* sync attempt -> the row as the attempt's session loaded it

\* One analysis: the JSON a provider answered with, what analyze_call
\* returned for it and what process_call_recording stored of it.
VARIABLES
  resp,      \* the parsed JSON of the provider's answer
  returned,  \* the return value of analyze_call
  stored,    \* the columns of the Insight and QualityMetric rows
  apc        \* position: "provider", "returned", "stored"

\* The retries of the four Celery tasks that retry themselves.
VARIABLES
  request_retries,  \* task -> self.request.retries
  countdown         \* task -> countdown of the last self.retry, 0 before

\* One delivery of trigger_webhooks for one event (workers/webhooks.py).
VARIABLES
  webhooks,  \* the Webhook rows: subscription -> [own, is_active,
             \* subscribed]: of the event's organization, active, with the
             \* event type in its events
  wpc,       \* position of the task
  widx,      \* the subscription the loop is at
  wretries,  \* self.request.retries
  posts,     \* subscription -> number of httpx.post calls made to it
  delivered, \* subscription -> number of those answered 2xx
  \* the caller of Call.can_retry
  attempts_limit  \* the max_attempts it passes

providerVars == <<t_in, t_out, a_in, a_out>>

jobVars == <<jobs, jpc, org>>

crmVars == <<prospect, remote, spc, sretries, searched, sync_logs>>

quotaVars == <<crm_config, qpc, qcopy>>

analysisVars == <<resp, returned, stored, apc>>

backoffVars == <<request_retries, countdown>>

webhookVars == <<webhooks, wpc, widx, wretries, posts, delivered>>

gateVars == <<attempts_limit>>

nonWorkerVars ==
  <<call, providerVars, jobVars, crmVars, quotaVars,
    analysisVars, backoffVars, webhookVars, gateVars>>

nonCallVars ==
  <<workerVars, providerVars, jobVars, crmVars, quotaVars,
    analysisVars, backoffVars, webhookVars, gateVars>>

nonProviderVars ==
  <<workerVars, call, jobVars, crmVars, quotaVars,
    analysisVars, backoffVars, webhookVars, gateVars>>

nonJobVars ==
  <<workerVars, call, providerVars, crmVars, quotaVars,
    analysisVars, backoffVars, webhookVars, gateVars>>

nonCrmVars ==
  <<workerVars, call, providerVars, jobVars, quotaVars,
    analysisVars, backoffVars, webhookVars, gateVars>>

nonQuotaVars ==
  <<workerVars, call, providerVars, jobVars, crmVars,
    analysisVars, backoffVars, webhookVars, gateVars>>

nonAnalysisVars ==
  <<workerVars, call, providerVars, jobVars, crmVars,
    quotaVars, backoffVars, webhookVars, gateVars>>

nonBackoffVars ==
  <<workerVars, call, providerVars, jobVars, crmVars,
    quotaVars, analysisVars, webhookVars, gateVars>>

nonWebhookVars ==
  <<workerVars, call, providerVars, jobVars, crmVars,
    quotaVars, analysisVars, backoffVars, gateVars>>

vars ==
  <<workerVars, call, providerVars, jobVars, crmVars,
    quotaVars, analysisVars, backoffVars, webhookVars, gateVars>>

\* -------------------------------------------------------------------- Init

\* create_call, up to its first commit: the row exists with status
\* "pending", with or without a recording; nothing is enqueued yet.
InitWorker ==
  /\ status = "pending"
  /\ recording_url \in BOOLEAN
  /\ transcripts = 0
  /\ insights = 0
  /\ quality_metrics = 0
  /\ processing_error = NULL
  /\ pc = [t \in Tasks |-> "idle"]
  /\ retries = [t \in Tasks |-> 0]
  /\ dup = [t \in Tasks |-> <<0, "none">>]
  /\ apiPc = "idle"
  /\ webhook_tasks = 0
  /\ crm_tasks = 0

\* ------------------------------------------------------ api/v1/calls.py

\* X.delay(call_id): one more message on the processing queue.
Delay(t, kind) ==
  /\ pc[t] = "idle"
  /\ \A u \in Tasks : u < t => pc[u] # "idle"
  /\ pc' = [pc EXCEPT ![t] = kind]
  /\ UNCHANGED <<retries, dup>>

\* create_call, lines 60-62: process_call_recording.delay when the call has
\* a recording. The write of "queued" is the request's next step.
create_call(t) ==
  /\ apiPc = "idle"
  /\ status = "pending"
  /\ recording_url
  /\ \A u \in Tasks : pc[u] = "idle"
  /\ Delay(t, "queued")
  /\ apiPc' = "commit_queued"
  /\ UNCHANGED <<status, recording_url, transcripts, insights, quality_metrics,
                 processing_error, webhook_tasks, crm_tasks>>
  /\ UNCHANGED nonWorkerVars

\* upload_transcript: process_text_transcript.delay, whatever the status.
upload_transcript(t) ==
  /\ apiPc = "idle"
  /\ Delay(t, "text_queued")
  /\ apiPc' = "commit_queued"
  /\ UNCHANGED <<status, recording_url, transcripts, insights, quality_metrics,
                 processing_error, webhook_tasks, crm_tasks>>
  /\ UNCHANGED nonWorkerVars

\* reprocess_call: process_call_recording.delay, whatever the status.
reprocess_call(t) ==
  /\ apiPc = "idle"
  /\ Delay(t, "queued")
  /\ apiPc' = "commit_queued"
  /\ UNCHANGED <<status, recording_url, transcripts, insights, quality_metrics,
                 processing_error, webhook_tasks, crm_tasks>>
  /\ UNCHANGED nonWorkerVars

\* call.status = "queued"; db.commit() of the three requests above.
commit_queued ==
  /\ apiPc = "commit_queued"
  /\ status' = "queued"
  /\ apiPc' = "idle"
  /\ UNCHANGED <<recording_url, transcripts, insights, quality_metrics,
                 processing_error, pc, retries, dup, webhook_tasks, crm_tasks>>
  /\ UNCHANGED nonWorkerVars

\* update_call: PATCH with a status; any non-empty string is written.
update_call(s) ==
  /\ status' = s
  /\ UNCHANGED <<recording_url, transcripts, insights, quality_metrics,
                 processing_error, pc, retries, dup, apiPc, webhook_tasks,
                 crm_tasks>>
  /\ UNCHANGED nonWorkerVars

\* --------------------------------------------- workers/call_processing.py

\* process_text_transcript: save the uploaded text as a Transcript row, then
\* process_call_recording.delay(call_id).
process_text_transcript(t) ==
  /\ pc[t] = "text_queued"
  /\ transcripts' = transcripts + 1
  /\ pc' = [pc EXCEPT ![t] = "queued"]
  /\ UNCHANGED <<status, recording_url, insights, quality_metrics,
                 processing_error, retries, dup, apiPc, webhook_tasks,
                 crm_tasks>>
  /\ UNCHANGED nonWorkerVars

\* Lines 49-55: load the call, call.status = "processing", commit. The write
\* does not look at the status it replaces.
pcr_start(t) ==
  /\ pc[t] = "queued"
  /\ status' = "processing"
  /\ pc' = [pc EXCEPT ![t] = "transcribe"]
  /\ UNCHANGED <<recording_url, transcripts, insights, quality_metrics,
                 processing_error, retries, dup, apiPc, webhook_tasks, crm_tasks>>
  /\ UNCHANGED nonWorkerVars

\* Lines 57-90. With a recording: transcribe_audio returns (ok) and a new
\* Transcript row is added and committed, or it raises. Without one: the
\* stored transcript is used, and ValueError is raised when there is none.
pcr_transcribe(t, ok) ==
  /\ pc[t] = "transcribe"
  /\ IF recording_url
       THEN IF ok
              THEN /\ transcripts' = transcripts + 1
                   /\ pc' = [pc EXCEPT ![t] = "analyze"]
              ELSE /\ transcripts' = transcripts
                   /\ pc' = [pc EXCEPT ![t] = "except"]
       ELSE /\ transcripts' = transcripts
            /\ pc' = [pc EXCEPT ![t] = IF transcripts > 0 THEN "analyze" ELSE "except"]
  /\ UNCHANGED <<status, recording_url, insights, quality_metrics,
                 processing_error, retries, dup, apiPc, webhook_tasks,
                 crm_tasks>>
  /\ UNCHANGED nonWorkerVars

\* Lines 92-129: analyze_call returns (ok) and an Insight row and a
\* QualityMetric row are added, call.status = "completed", one commit; or it
\* raises.
pcr_analyze(t, ok) ==
  /\ pc[t] = "analyze"
  /\ IF ok
       THEN /\ insights' = insights + 1
            /\ quality_metrics' = quality_metrics + 1
            /\ status' = "completed"
            /\ pc' = [pc EXCEPT ![t] = "trigger"]
       ELSE /\ UNCHANGED <<insights, quality_metrics, status>>
            /\ pc' = [pc EXCEPT ![t] = "except"]
  /\ UNCHANGED <<recording_url, transcripts, processing_error, retries, dup,
                 apiPc, webhook_tasks, crm_tasks>>
  /\ UNCHANGED nonWorkerVars

\* Lines 133-146: trigger_webhooks.delay, then sync_call_to_crm.delay, then
\* return. sent = 2: both were handed to the broker; sent = 1: the second
\* .delay raised; sent = 0: the first one did. Both are inside the try.
pcr_trigger(t, sent) ==
  /\ pc[t] = "trigger"
  /\ webhook_tasks' = webhook_tasks + (IF sent >= 1 THEN 1 ELSE 0)
  /\ crm_tasks' = crm_tasks + (IF sent = 2 THEN 1 ELSE 0)
  /\ pc' = [pc EXCEPT ![t] = IF sent = 2 THEN "done" ELSE "except"]
  /\ UNCHANGED <<status, recording_url, transcripts, insights, quality_metrics,
                 processing_error, retries, dup, apiPc>>
  /\ UNCHANGED nonWorkerVars

\* Lines 148-158: call.status = "failed", commit, then self.retry: a new
\* delivery with retries + 1 while retries < max_retries, else the task ends
\* with the exception.
pcr_except(t) ==
  /\ pc[t] = "except"
  /\ status' = "failed"
  /\ IF retries[t] < max_retries
       THEN /\ retries' = [retries EXCEPT ![t] = @ + 1]
            /\ pc' = [pc EXCEPT ![t] = "queued"]
       ELSE /\ retries' = retries
            /\ pc' = [pc EXCEPT ![t] = "dead"]
  /\ UNCHANGED <<recording_url, transcripts, insights, quality_metrics,
                 processing_error, dup, apiPc, webhook_tasks, crm_tasks>>
  /\ UNCHANGED nonWorkerVars

\* celery_app.conf: task_acks_late, task_reject_on_worker_lost. A message is
\* acknowledged only after the task returns, so the broker may deliver the
\* message of t a second time (slot u) while t runs or after it has ended.
redeliver(t, u) ==
  /\ pc[t] \notin {"idle", "queued", "text_queued"}
  /\ pc[u] = "idle"
  /\ \A v \in Tasks : v < u => pc[v] # "idle"
  /\ pc' = [pc EXCEPT ![u] = "queued"]
  /\ retries' = [retries EXCEPT ![u] = retries[t]]
  /\ dup' = [dup EXCEPT ![u] = <<t, IF pc[t] = "done" THEN "returned" ELSE "running">>]
  /\ UNCHANGED <<status, recording_url, transcripts, insights, quality_metrics,
                 processing_error, apiPc, webhook_tasks, crm_tasks>>
  /\ UNCHANGED nonWorkerVars



Next ==
  \/ \E t \in Tasks : create_call(t)
  \/ \E t \in Tasks : upload_transcript(t)
  \/ \E t \in Tasks : reprocess_call(t)
  \/ commit_queued
  \/ \E s \in UpdateStatuses : update_call(s)
  \/ \E t \in Tasks : process_text_transcript(t)
  \/ \E t \in Tasks : pcr_start(t)
  \/ \E t \in Tasks, ok \in BOOLEAN : pcr_transcribe(t, ok)
  \/ \E t \in Tasks, ok \in BOOLEAN : pcr_analyze(t, ok)
  \/ \E t \in Tasks, sent \in 0..2 : pcr_trigger(t, sent)
  \/ \E t \in Tasks : pcr_except(t)
  \/ \E t, u \in Tasks : redeliver(t, u)


\* ----------------------------------------------------- app/models/call.py

\* Attempts after which mark_as_processing is no longer called here.
MaxAttemptCount == 4

\* The error strings mark_as_failed is called with.
Errors == {"transcription failed", "analysis failed"}

\* Column defaults of Call: status PENDING, processing_attempts 0, the
\* nullable columns NULL.
InitCall ==
  call = [status |-> "pending",
          processing_started_at |-> NULL,
          processing_completed_at |-> NULL,
          processing_error |-> NULL,
          processing_attempts |-> 0,
          insights |-> NULL,
          quality_metrics |-> NULL,
          crm_update_result |-> NULL]

\* The only max_attempts of the code: Call.can_retry(max_attempts=3).
max_attempts == 3

\* A can_retry that allows one attempt more.
can_retry_inclusive(c, max) ==
  c.status = "failed" /\ c.processing_attempts <= max

\* Call.can_retry(max_attempts)
can_retry(c, max) ==
  c.status = "failed" /\ c.processing_attempts < max

\* Call.mark_as_processing
mark_as_processing ==
  /\ call.processing_attempts < MaxAttemptCount
  /\ call' = [call EXCEPT !.status = "processing",
                          !.processing_started_at = "set",
                          !.processing_error = NULL,
                          !.processing_attempts = @ + 1]
  /\ UNCHANGED nonCallVars

\* Call.mark_as_completed(insights, quality_metrics): a result that is None
\* (or empty) leaves the column as it is. strategic_advice and
\* follow_up_email are handled as quality_metrics is and are left out.
mark_as_completed(i, q) ==
  /\ call' = [call EXCEPT !.status = "completed",
                          !.processing_completed_at = "set",
                          !.insights = IF i # NULL THEN i ELSE @,
                          !.quality_metrics = IF q # NULL THEN q ELSE @]
  /\ UNCHANGED nonCallVars

\* Call.mark_as_failed(error)
mark_as_failed(e) ==
  /\ call' = [call EXCEPT !.status = "failed",
                          !.processing_completed_at = "set",
                          !.processing_error = e]
  /\ UNCHANGED nonCallVars

\* A reset that also starts the attempt count again.
reset_for_retry_zeroing ==
  /\ call' = [call EXCEPT !.status = "pending",
                          !.processing_started_at = NULL,
                          !.processing_completed_at = NULL,
                          !.processing_error = NULL,
                          !.processing_attempts = 0]
  /\ UNCHANGED nonCallVars

\* Call.reset_for_retry: no condition; processing_attempts is kept.
reset_for_retry ==
  /\ call' = [call EXCEPT !.status = "pending",
                          !.processing_started_at = NULL,
                          !.processing_completed_at = NULL,
                          !.processing_error = NULL]
  /\ UNCHANGED nonCallVars

\* POST /calls/{call_id}/reprocess of app/api/v1/endpoints/calls.py,
\* lines 583-593: the reset is written inline, for a call in any status.
endpoint_reprocess_call ==
  /\ call' = [call EXCEPT !.status = "pending",
                          !.processing_started_at = "set",
                          !.processing_completed_at = NULL,
                          !.insights = NULL,
                          !.quality_metrics = NULL,
                          !.crm_update_result = NULL]
  /\ UNCHANGED nonCallVars

\* CallProcessingService.reprocess_call, lines 394-401: processing_status
\* PENDING and error_message None, for a call in any status.
service_reprocess_call ==
  /\ call' = [call EXCEPT !.status = "pending",
                          !.processing_error = NULL]
  /\ UNCHANGED nonCallVars

NextCall ==
  \/ mark_as_processing
  \/ \E i \in {NULL, "insights"}, q \in {NULL, "quality"} : mark_as_completed(i, q)
  \/ \E e \in Errors : mark_as_failed(e)
  \/ reset_for_retry
  \/ endpoint_reprocess_call
  \/ service_reprocess_call

\* ---- the Call model driven by a caller that keeps the protocol ----------

\* Call.update_crm_status(result, record_id)
update_crm_status(result) ==
  /\ call' = [call EXCEPT !.crm_update_result = result]
  /\ UNCHANGED nonCallVars

\* The max_attempts the caller passes to can_retry, the same each time.
InitGate == attempts_limit \in 1..MaxAttemptCount

\* A processing run starts with mark_as_processing, on a pending call.
start_run ==
  /\ call.status = "pending"
  /\ mark_as_processing

\* The run ends with mark_as_completed or mark_as_failed.
finish_run(i, q) ==
  /\ call.status = "processing"
  /\ mark_as_completed(i, q)

fail_run(e) ==
  /\ call.status = "processing"
  /\ mark_as_failed(e)

\* A failed call is run again only through can_retry and reset_for_retry.
retry_run ==
  /\ can_retry(call, attempts_limit)
  /\ reset_for_retry

\* The CRM result of a completed call is recorded.
record_crm_status(result) ==
  /\ call.status = "completed"
  /\ call.crm_update_result = NULL
  /\ update_crm_status(result)

NextCallGated ==
  \/ start_run
  \/ \E i \in {NULL, "insights"}, q \in {NULL, "quality"} : finish_run(i, q)
  \/ \E e \in Errors : fail_run(e)
  \/ retry_run
  \/ \E result \in {"success", "failed"} : record_crm_status(result)

\* -------------------------------------- services/transcription_service.py

TranscriptionProviders == {"deepgram", "assemblyai", "whisper"}

\* What an invocation returns: the provider whose result is returned, or
\* "raise", and the providers called, in order.
Outcome(result, calls) == [result |-> result, calls |-> calls]

\* Before the invocation.
NotInvoked == Outcome(NULL, <<>>)

\* The providers' outcome is an input; a provider named in cfg.healthy
\* returns its result when called, any other raises.
CallProvider(p, cfg, calls) ==
  Outcome(IF p \in cfg.healthy THEN p ELSE "raise", Append(calls, p))

\* The fallback without its provider != "deepgram" condition.
transcribe_audio_always_deepgram(cfg) ==
  LET first == IF cfg.primary \in cfg.keys
                 THEN CallProvider(cfg.primary, cfg, <<>>)
                 ELSE Outcome("raise", <<>>)
  IN  IF first.result # "raise"
        THEN first
        ELSE IF "deepgram" \in cfg.keys
               THEN CallProvider("deepgram", cfg, first.calls)
               ELSE first

\* transcribe_audio, lines 40-57. The try block calls the requested provider
\* when its key is configured and raises ValueError otherwise; the except
\* block falls back to Deepgram when the provider was another one and the
\* Deepgram key is configured, and re-raises otherwise.
transcribe_audio(cfg) ==
  LET first == IF cfg.primary \in cfg.keys
                 THEN CallProvider(cfg.primary, cfg, <<>>)
                 ELSE Outcome("raise", <<>>)
  IN  IF first.result # "raise"
        THEN first
        ELSE IF cfg.primary # "deepgram" /\ "deepgram" \in cfg.keys
               THEN CallProvider("deepgram", cfg, first.calls)
               ELSE first

\* ------------------------------------------------- services/ai_service.py

AIProviders == {"anthropic", "openai", "gemini"}

\* analyze_call, lines 42-62. The except block falls back to Claude when the
\* provider was another one and the Anthropic client exists; otherwise to
\* OpenAI when the provider was another one and the OpenAI client exists;
\* otherwise it re-raises. A failing fallback is not followed by another.
analyze_call(cfg) ==
  LET first == IF cfg.primary \in cfg.keys
                 THEN CallProvider(cfg.primary, cfg, <<>>)
                 ELSE Outcome("raise", <<>>)
  IN  IF first.result # "raise"
        THEN first
        ELSE IF cfg.primary # "anthropic" /\ "anthropic" \in cfg.keys
               THEN CallProvider("anthropic", cfg, first.calls)
               ELSE IF cfg.primary # "openai" /\ "openai" \in cfg.keys
                      THEN CallProvider("openai", cfg, first.calls)
                      ELSE first

\* settings.TRANSCRIPTION_PROVIDER / settings.AI_PROVIDER, the API keys that
\* are set, and the providers that answer.
ProviderConfigs(P) ==
  [primary : P, keys : SUBSET P, healthy : SUBSET P]

InitProviders ==
  /\ t_in \in ProviderConfigs(TranscriptionProviders)
  /\ a_in \in ProviderConfigs(AIProviders)
  /\ t_out = NotInvoked
  /\ a_out = NotInvoked

TranscribeAudio ==
  /\ t_out = NotInvoked
  /\ t_out' = transcribe_audio(t_in)
  /\ UNCHANGED <<t_in, a_in, a_out>>
  /\ UNCHANGED nonProviderVars

AnalyzeCall ==
  /\ a_out = NotInvoked
  /\ a_out' = analyze_call(a_in)
  /\ UNCHANGED <<t_in, t_out, a_in>>
  /\ UNCHANGED nonProviderVars

NextProviders ==
  \/ TranscribeAudio
  \/ AnalyzeCall

\* ------------------------------------ job_runner.py + core/database.py

\* Jobs submitted.
MaxJobs == 2

Jobs == 1..MaxJobs

\* organizations.crm_type; CRMFactory.get_adapter maps anything that is not
\* 'salesforce' or 'hubspot' to the Google Sheets adapter.
CrmTypes == {"salesforce", "hubspot", "sheets"}

NoJob == [status |-> NULL, analysis_result |-> NULL, crm_sync_status |-> NULL]

InitJobs ==
  /\ jobs = [j \in Jobs |-> NoJob]
  /\ jpc = [j \in Jobs |-> "none"]
  /\ org \in [Jobs -> CrmTypes]

\* DatabaseManager.update_job: status, analysis_result and crm_sync_status
\* are all three overwritten; a result that is None (or empty) is stored as
\* NULL.
update_job(j, st, result, crm_status) ==
  jobs' = [jobs EXCEPT ![j] = [status |-> st,
                               analysis_result |-> result,
                               crm_sync_status |-> crm_status]]

\* submit_job: DatabaseManager.create_job inserts the row as PENDING.
submit_job(j) ==
  /\ jpc[j] = "none"
  /\ \A k \in Jobs : k < j => jpc[k] # "none"
  /\ jobs' = [jobs EXCEPT ![j] = [NoJob EXCEPT !.status = "PENDING"]]
  /\ jpc' = [jpc EXCEPT ![j] = "submitted"]
  /\ UNCHANGED org
  /\ UNCHANGED nonJobVars

\* process_call_job, line 15: db.update_job(job_id, "PROCESSING").
job_start(j) ==
  /\ jpc[j] = "submitted"
  /\ update_job(j, "PROCESSING", NULL, NULL)
  /\ jpc' = [jpc EXCEPT ![j] = "pipeline"]
  /\ UNCHANGED org
  /\ UNCHANGED nonJobVars

\* Lines 17-37: the agent pipeline runs and final_state is collected
\* (named: structured_data carries a prospect_name), or it raises and the
\* except block of line 55 writes FAILED.
job_pipeline(j, ok, named) ==
  /\ jpc[j] = "pipeline"
  /\ IF ok
       THEN /\ jpc' = [jpc EXCEPT ![j] = IF named THEN "sync_named" ELSE "sync"]
            /\ UNCHANGED jobs
       ELSE /\ update_job(j, "FAILED", NULL, "pipeline error")
            /\ jpc' = [jpc EXCEPT ![j] = "done"]
  /\ UNCHANGED org
  /\ UNCHANGED nonJobVars

\* CRMAdapter.sync_data of services/crm_integration.py: the Salesforce
\* adapter reads data['prospect_name'] and raises KeyError without it; the
\* other two adapters return their message.
sync_data(crm_type, named) ==
  IF crm_type = "salesforce" /\ ~named THEN "KeyError" ELSE "SUCCESS"

\* Lines 39-57: the CRM sync, inside the same try as the pipeline. When the
\* adapter returns, the job is COMPLETED with the result and the sync
\* message; when it raises, the except block writes FAILED with the error,
\* and no result.
job_crm_sync(j) ==
  /\ jpc[j] \in {"sync", "sync_named"}
  /\ LET msg == sync_data(org[j], jpc[j] = "sync_named")
     IN  IF msg = "SUCCESS"
           THEN update_job(j, "COMPLETED", "final_state", msg)
           ELSE update_job(j, "FAILED", NULL, msg)
  /\ jpc' = [jpc EXCEPT ![j] = "done"]
  /\ UNCHANGED org
  /\ UNCHANGED nonJobVars

NextJobs ==
  \/ \E j \in Jobs : submit_job(j)
  \/ \E j \in Jobs : job_start(j)
  \/ \E j \in Jobs, ok \in BOOLEAN, named \in BOOLEAN : job_pipeline(j, ok, named)
  \/ \E j \in Jobs : job_crm_sync(j)

\* ------------------- workers/webhooks.py + integrations/crm: the CRM sync

\* Runs of the CRM sync for the one call.
MaxSyncRuns == 2

SyncRuns == 1..MaxSyncRuns

\* @celery_app.task(bind=True, max_retries=3) of sync_call_to_crm
sync_max_retries == 3

InitCrm ==
  /\ prospect \in [company_name : BOOLEAN, email : BOOLEAN]
  /\ remote = 0
  /\ spc = [r \in SyncRuns |-> "idle"]
  /\ sretries = [r \in SyncRuns |-> 0]
  /\ searched = [r \in SyncRuns |-> NULL]
  /\ sync_logs = 0

\* sync_call_to_crm, lines 72-87: a delivery of the task starts; it returns
\* at once when the organization has no enabled integration or the call has
\* no insight (ready is FALSE).
sync_call_to_crm(r, ready) ==
  /\ spc[r] = "idle"
  /\ \A k \in SyncRuns : k < r => spc[k] # "idle"
  /\ spc' = [spc EXCEPT ![r] = IF ready THEN "sync" ELSE "done"]
  /\ UNCHANGED <<prospect, remote, sretries, searched, sync_logs>>
  /\ UNCHANGED nonCrmVars

\* sync_to_salesforce, lines 115-135, called from the loop of lines 91-109.
\* With a company name the contact is created by sf.Contact.create, without
\* any search; ok is FALSE when the login or the create raises, and then
\* line 109 retries the task while the retries last.
sync_to_salesforce(r, ok) ==
  /\ spc[r] = "sync"
  /\ IF ok
       THEN /\ remote' = remote + (IF prospect.company_name THEN 1 ELSE 0)
            /\ spc' = [spc EXCEPT ![r] = "done"]
            /\ UNCHANGED sretries
       ELSE /\ UNCHANGED remote
            /\ IF sretries[r] < sync_max_retries
                 THEN /\ sretries' = [sretries EXCEPT ![r] = @ + 1]
                      /\ UNCHANGED spc
                 ELSE /\ spc' = [spc EXCEPT ![r] = "dead"]
                      /\ UNCHANGED sretries
  /\ UNCHANGED <<prospect, searched, sync_logs>>
  /\ UNCHANGED nonCrmVars

\* BaseCRMConnector.upsert_contact, lines 163-165: with an email the contact
\* is searched. SalesforceConnector.search_contact returns None when the
\* query finds nothing and also when it raises SalesforceError (err).
\* Without an email, and when nothing was found, the contact is created.
upsert_contact_search(r, err) ==
  /\ spc[r] = "idle"
  /\ \A k \in SyncRuns : k < r => spc[k] # "idle"
  /\ LET existing == prospect.email /\ ~err /\ remote > 0
         outcome  == IF ~prospect.email THEN "skipped"
                     ELSE IF err THEN "error"
                     ELSE IF remote > 0 THEN "found" ELSE "not_found"
     IN  /\ spc' = [spc EXCEPT ![r] = IF existing THEN "update" ELSE "create"]
         /\ searched' = [searched EXCEPT ![r] = outcome]
  /\ UNCHANGED <<prospect, remote, sretries, sync_logs>>
  /\ UNCHANGED nonCrmVars

\* Line 166: update_contact(existing.crm_id, contact) writes the record that
\* exists; the result carries the entity id unless Salesforce refuses (ok
\* is FALSE), and _sync_to_crm logs it with create_crm_sync_log.
upsert_contact_update(r, ok) ==
  /\ spc[r] = "update"
  /\ spc' = [spc EXCEPT ![r] = "done"]
  /\ sync_logs' = sync_logs + (IF ok THEN 1 ELSE 0)
  /\ UNCHANGED <<prospect, remote, sretries, searched>>
  /\ UNCHANGED nonCrmVars

\* Line 168: create_contact(contact); SalesforceConnector.create_contact
\* returns success=False, without an entity id, instead of raising when
\* Salesforce refuses; _sync_to_crm logs the result with
\* create_crm_sync_log.
upsert_contact_create(r, ok) ==
  /\ spc[r] = "create"
  /\ remote' = remote + (IF ok THEN 1 ELSE 0)
  /\ sync_logs' = sync_logs + (IF ok THEN 1 ELSE 0)
  /\ spc' = [spc EXCEPT ![r] = "done"]
  /\ UNCHANGED <<prospect, sretries, searched>>
  /\ UNCHANGED nonCrmVars

NextCrm ==
  \/ \E r \in SyncRuns, ready \in BOOLEAN : sync_call_to_crm(r, ready)
  \/ \E r \in SyncRuns, ok \in BOOLEAN : sync_to_salesforce(r, ok)
  \/ \E r \in SyncRuns, err \in BOOLEAN : upsert_contact_search(r, err)
  \/ \E r \in SyncRuns, ok \in BOOLEAN : upsert_contact_update(r, ok)
  \/ \E r \in SyncRuns, ok \in BOOLEAN : upsert_contact_create(r, ok)

\* ------------------------------------------- app/models/crm_config.py

\* Sync attempts of the one tenant.
MaxSyncAttempts == 3

SyncAttempts == 1..MaxSyncAttempts

\* Largest quota_limit and rate_limit_remaining a tenant is given here.
MaxQuota == 2

\* A nullable Integer column: None, or the number.
None == <<>>

Some(n) == <<n>>

ConnectionStatuses == {"connected", "disconnected", "error"}

\* rate_limit_reset as can_sync reads it: None, or a time that utcnow() has
\* passed, or one it has not.
ResetTimes == {NULL, "past", "future"}

\* The row after its creation: the column defaults of lines 38 and 60-67,
\* with the quota_limit the tenant is given.
InitQuota ==
  /\ crm_config \in [connection_status : {"disconnected"},
              is_active : {TRUE},
              rate_limit_remaining : {None},
              rate_limit_reset : {NULL},
              quota_used : {0},
              quota_limit : {None} \cup {Some(n) : n \in 1..MaxQuota},
              last_sync_status : {NULL},
              field_mappings : {{}}]
  /\ qpc = [a \in SyncAttempts |-> "idle"]
  /\ qcopy = [a \in SyncAttempts |-> 0]

\* An is_connected that looks at is_active only.
is_connected_active_only(c) == c.is_active

is_connected(c) == c.connection_status = "connected" /\ c.is_active

can_sync(c) ==
  IF ~is_connected(c)
    THEN FALSE
    ELSE IF /\ c.rate_limit_remaining # None
            /\ c.rate_limit_remaining[1] <= 0
            /\ c.rate_limit_reset = "future"
           THEN FALSE
           ELSE IF c.quota_limit # None /\ c.quota_used >= c.quota_limit[1]
                  THEN FALSE
                  ELSE TRUE

\* increment_quota: self.quota_used += 1 on the value the session holds.
increment_quota(used) == used + 1

\* update_sync_status: last_sync_status is written; "success" connects,
\* "failed" sets "error".
update_sync_status(c, st) ==
  [c EXCEPT !.last_sync_status = st,
            !.connection_status =
              IF st = "success" THEN "connected"
              ELSE IF st = "failed" THEN "error" ELSE @]

test_connection(success) ==
  /\ crm_config' = [crm_config EXCEPT !.connection_status =
                          IF success THEN "connected" ELSE "error"]
  /\ UNCHANGED <<qpc, qcopy>>
  /\ UNCHANGED nonQuotaVars

\* update_rate_limits: an argument that is None leaves its column alone.
update_rate_limits(remaining, reset) ==
  /\ crm_config' = [crm_config EXCEPT
               !.rate_limit_remaining = IF remaining # None THEN remaining ELSE @,
               !.rate_limit_reset = IF reset # NULL THEN reset ELSE @]
  /\ crm_config' # crm_config
  /\ UNCHANGED <<qpc, qcopy>>
  /\ UNCHANGED nonQuotaVars

\* The clock of can_sync's utcnow() passes rate_limit_reset.
reset_time_passes ==
  /\ crm_config.rate_limit_reset = "future"
  /\ crm_config' = [crm_config EXCEPT !.rate_limit_reset = "past"]
  /\ UNCHANGED <<qpc, qcopy>>
  /\ UNCHANGED nonQuotaVars

\* A sync attempt, steps 1 and 2 of the sync algorithm: its session loads
\* the tenant's row and can_sync decides on what was loaded.
attempt_check(a) ==
  /\ qpc[a] = "idle"
  /\ \A k \in SyncAttempts : k < a => qpc[k] # "idle"
  /\ qcopy' = [qcopy EXCEPT ![a] = crm_config.quota_used]
  /\ qpc' = [qpc EXCEPT ![a] = IF can_sync(crm_config) THEN "sync" ELSE "deferred"]
  /\ UNCHANGED crm_config
  /\ UNCHANGED nonQuotaVars

\* Step 5: after the remote call, on success increment_quota and
\* update_sync_status("success") on the loaded row, on error
\* update_sync_status("failed"); the commit writes the columns assigned.
attempt_finish(a, ok) ==
  /\ qpc[a] = "sync"
  /\ IF ok
       THEN /\ crm_config' = [update_sync_status(crm_config, "success")
                         EXCEPT !.quota_used = increment_quota(qcopy[a])]
            /\ qpc' = [qpc EXCEPT ![a] = "synced"]
       ELSE /\ crm_config' = update_sync_status(crm_config, "failed")
            /\ qpc' = [qpc EXCEPT ![a] = "failed"]
  /\ UNCHANGED qcopy
  /\ UNCHANGED nonQuotaVars

NextQuota ==
  \/ \E success \in BOOLEAN : test_connection(success)
  \/ \E remaining \in {None} \cup {Some(n) : n \in 0..MaxQuota},
        reset \in ResetTimes : update_rate_limits(remaining, reset)
  \/ reset_time_passes
  \/ \E a \in SyncAttempts : attempt_check(a)
  \/ \E a \in SyncAttempts, ok \in BOOLEAN : attempt_finish(a, ok)

\* ---- the methods of CRMConfig called one at a time on the row ----------

SyncStatuses == {"success", "failed", "partial"}

MappedFields == {"email", "company"}

\* update_sync_status(status) on the row.
sync_status_recorded(st) ==
  /\ crm_config' = update_sync_status(crm_config, st)
  /\ UNCHANGED <<qpc, qcopy>>
  /\ UNCHANGED nonQuotaVars

\* increment_quota() on the row, while the counter is within the range
\* kept.
quota_incremented ==
  /\ crm_config.quota_used <= MaxQuota
  /\ crm_config' = [crm_config EXCEPT
                      !.quota_used = increment_quota(crm_config.quota_used)]
  /\ UNCHANGED <<qpc, qcopy>>
  /\ UNCHANGED nonQuotaVars

\* set_field_mapping(our_field, crm_field)
set_field_mapping(our_field) ==
  /\ crm_config' = [crm_config EXCEPT !.field_mappings = @ \cup {our_field}]
  /\ UNCHANGED <<qpc, qcopy>>
  /\ UNCHANGED nonQuotaVars

NextCrmConfig ==
  \/ \E success \in BOOLEAN : test_connection(success)
  \/ \E st \in SyncStatuses : sync_status_recorded(st)
  \/ \E remaining \in {None} \cup {Some(n) : n \in 0..MaxQuota},
        reset \in ResetTimes : update_rate_limits(remaining, reset)
  \/ reset_time_passes
  \/ quota_incremented
  \/ \E f \in MappedFields : set_field_mapping(f)

\* ------------- services/ai_service.py + workers/call_processing.py:
\* ------------- one analysis from the provider's answer to the stored rows

\* Scores a provider answers with: the ends of the ranges the prompt asks
\* for (sentiment 1-10, quality 1-5) and their neighbours outside.
SentimentScores == {0, 1, 10, 11}

QualityScores == {0, 1, 5, 6}

\* The parsed JSON object: a key that is absent is NULL or None.
Responses ==
  [summary : {NULL, "text"},
   sentiment_score : {None} \cup {Some(n) : n \in SentimentScores},
   quality_score : {None} \cup {Some(n) : n \in QualityScores},
   questions_asked : {None, Some(3)}]

NoAnalysis ==
  [summary |-> NULL, sentiment_score |-> None, quality_score |-> None,
   questions_asked |-> None]

InitAnalysis ==
  /\ resp \in Responses
  /\ returned = NoAnalysis
  /\ stored = NoAnalysis
  /\ apc = "provider"

\* _analyze_claude / _analyze_openai / _analyze_gemini: json.loads of the
\* answer is returned as it is, and analyze_call returns that; an answer
\* that is not JSON (ok is FALSE) raises.
analyze_returns(ok) ==
  /\ apc = "provider"
  /\ IF ok
       THEN returned' = resp /\ apc' = "returned"
       ELSE returned' = returned /\ apc' = "raised"
  /\ UNCHANGED <<resp, stored>>
  /\ UNCHANGED nonAnalysisVars

\* process_call_recording, lines 98-125: the Insight and QualityMetric rows
\* take analysis.get(key), None for an absent key, and
\* quality_data.get("questions_asked", 0).
save_insights ==
  /\ apc = "returned"
  /\ stored' = [summary |-> returned.summary,
                sentiment_score |-> returned.sentiment_score,
                quality_score |-> returned.quality_score,
                questions_asked |-> IF returned.questions_asked = None
                                      THEN Some(0)
                                      ELSE returned.questions_asked]
  /\ apc' = "stored"
  /\ UNCHANGED <<resp, returned>>
  /\ UNCHANGED nonAnalysisVars

NextAnalysis ==
  \/ \E ok \in BOOLEAN : analyze_returns(ok)
  \/ save_insights

\* ---------------------------------------- the countdown of self.retry

RetryingTasks ==
  {"call_processing", "transcription_worker", "trigger_webhooks",
   "sync_call_to_crm"}

\* @celery_app.task(bind=True, max_retries=3) of trigger_webhooks
webhook_max_retries == 3

\* max_retries of the task's decorator.
task_max_retries(task) ==
  CASE task = "trigger_webhooks" -> webhook_max_retries
    [] task = "sync_call_to_crm" -> sync_max_retries
    [] OTHER -> max_retries

\* A different exponent: 60 * 2 ** (retries + 1) in call_processing.py.
retry_countdown_doubled(task, n) ==
  CASE task = "call_processing" -> 60 * (2 ^ (n + 1))
    [] task = "transcription_worker" -> 60 * (n + 1)
    [] task = "trigger_webhooks" -> 60
    [] task = "sync_call_to_crm" -> 120

\* The countdown argument of self.retry when self.request.retries is n.
retry_countdown(task, n) ==
  CASE task = "call_processing" -> 60 * (2 ^ n)
    [] task = "transcription_worker" -> 60 * (n + 1)
    [] task = "trigger_webhooks" -> 60
    [] task = "sync_call_to_crm" -> 120

InitBackoff ==
  /\ request_retries = [k \in RetryingTasks |-> 0]
  /\ countdown = [k \in RetryingTasks |-> 0]

\* raise self.retry(exc=e, countdown=...): Celery schedules the task again
\* with retries + 1 while retries < max_retries, and raises the exception
\* instead when they are used up.
self_retry(k) ==
  /\ request_retries[k] < task_max_retries(k)
  /\ countdown' = [countdown EXCEPT ![k] = retry_countdown(k, request_retries[k])]
  /\ request_retries' = [request_retries EXCEPT ![k] = @ + 1]
  /\ UNCHANGED nonBackoffVars

NextBackoff == \E k \in RetryingTasks : self_retry(k)

\* ------------------------------ workers/webhooks.py: trigger_webhooks

\* Webhook rows in the table.
MaxWebhooks == 2

Webhooks == 1..MaxWebhooks

WebhookRows == [own : BOOLEAN, is_active : BOOLEAN, subscribed : BOOLEAN]

InitWebhooks ==
  /\ webhooks \in [Webhooks -> WebhookRows]
  /\ wpc = "queued"
  /\ widx = 1
  /\ wretries = 0
  /\ posts = [w \in Webhooks |-> 0]
  /\ delivered = [w \in Webhooks |-> 0]

\* A selection that forgets is_active.
webhook_selected_any_status(wh) == wh.own /\ wh.subscribed

\* Lines 28-36: the query keeps the rows of the organization that are
\* active, and the loop skips a webhook whose events lack the event type.
webhook_selected(wh) == wh.own /\ wh.is_active /\ wh.subscribed

\* Lines 24-31: a run of the task starts and queries the active webhooks.
trigger_webhooks ==
  /\ wpc = "queued"
  /\ wpc' = "loop"
  /\ widx' = 1
  /\ UNCHANGED <<webhooks, wretries, posts, delivered>>
  /\ UNCHANGED nonWebhookVars

\* Lines 33-57, one turn of the loop over the table: a row that is not
\* selected is passed over; otherwise httpx.post, and a non-2xx answer or
\* a network error (ok is FALSE) goes to self.retry.
webhook_post(ok) ==
  /\ wpc = "loop"
  /\ widx <= MaxWebhooks
  /\ IF ~webhook_selected(webhooks[widx])
       THEN /\ widx' = widx + 1
            /\ UNCHANGED <<wpc, posts, delivered>>
       ELSE /\ posts' = [posts EXCEPT ![widx] = @ + 1]
            /\ IF ok
                 THEN /\ widx' = widx + 1
                      /\ wpc' = wpc
                      /\ delivered' = [delivered EXCEPT ![widx] = @ + 1]
                 ELSE /\ widx' = widx
                      /\ wpc' = "retry"
                      /\ UNCHANGED delivered
  /\ UNCHANGED <<webhooks, wretries>>
  /\ UNCHANGED nonWebhookVars

\* The loop is through: the task returns.
trigger_return ==
  /\ wpc = "loop"
  /\ widx > MaxWebhooks
  /\ wpc' = "done"
  /\ UNCHANGED <<webhooks, widx, wretries, posts, delivered>>
  /\ UNCHANGED nonWebhookVars

\* One retry more than max_retries allows.
trigger_retry_once_more ==
  /\ wpc = "retry"
  /\ IF wretries <= webhook_max_retries
       THEN wretries' = wretries + 1 /\ wpc' = "queued"
       ELSE wretries' = wretries /\ wpc' = "dead"
  /\ UNCHANGED <<webhooks, widx, posts, delivered>>
  /\ UNCHANGED nonWebhookVars

\* Line 57: raise self.retry(exc=e, countdown=60). The whole task is run
\* again while retries < max_retries; after that the task ends with the
\* exception and nothing is scheduled.
trigger_retry ==
  /\ wpc = "retry"
  /\ IF wretries < webhook_max_retries
       THEN wretries' = wretries + 1 /\ wpc' = "queued"
       ELSE wretries' = wretries /\ wpc' = "dead"
  /\ UNCHANGED <<webhooks, widx, posts, delivered>>
  /\ UNCHANGED nonWebhookVars

NextWebhooks ==
  \/ trigger_webhooks
  \/ \E ok \in BOOLEAN : webhook_post(ok)
  \/ trigger_return
  \/ trigger_retry

\* ========================================================= specifications
\* Each specification starts its own part of the state as the code
\* constructs it and leaves the other parts at rest.

RestWorker == InitWorker /\ ~recording_url

RestCall == InitCall

RestGate == attempts_limit = max_attempts

RestProviders ==
  /\ t_in = NULL /\ t_out = NULL /\ a_in = NULL /\ a_out = NULL

RestJobs ==
  /\ InitJobs
  /\ org = [j \in Jobs |-> "sheets"]

RestCrm ==
  /\ InitCrm
  /\ prospect = [company_name |-> FALSE, email |-> FALSE]

RestQuota ==
  /\ InitQuota
  /\ crm_config.quota_limit = None

RestAnalysis ==
  /\ InitAnalysis
  /\ resp = NoAnalysis

RestBackoff == InitBackoff

RestWebhooks ==
  /\ InitWebhooks
  /\ webhooks = [w \in Webhooks |->
                   [own |-> FALSE, is_active |-> FALSE, subscribed |-> FALSE]]

\* The Celery worker and the calls API of backend/api/v1.
Init ==
  /\ RestGate
  /\ InitWorker /\ RestCall /\ RestProviders /\ RestJobs /\ RestCrm
  /\ RestQuota /\ RestAnalysis /\ RestBackoff /\ RestWebhooks

Spec == Init /\ [][Next]_vars

\* The Call model of backend/app and the reprocess operations.
InitSpecCall ==
  /\ RestGate
  /\ RestWorker /\ InitCall /\ RestProviders /\ RestJobs /\ RestCrm
  /\ RestQuota /\ RestAnalysis /\ RestBackoff /\ RestWebhooks

SpecCall == InitSpecCall /\ [][NextCall]_vars

\* One invocation of each provider fallback, over every configuration.
InitSpecProviders ==
  /\ RestGate
  /\ RestWorker /\ RestCall /\ InitProviders /\ RestJobs /\ RestCrm
  /\ RestQuota /\ RestAnalysis /\ RestBackoff /\ RestWebhooks

SpecProviders == InitSpecProviders /\ [][NextProviders]_vars

\* The job runner.
InitSpecJobs ==
  /\ RestGate
  /\ RestWorker /\ RestCall /\ RestProviders /\ InitJobs /\ RestCrm
  /\ RestQuota /\ RestAnalysis /\ RestBackoff /\ RestWebhooks

SpecJobs == InitSpecJobs /\ [][NextJobs]_vars

\* The CRM sync of one call, run more than once.
InitSpecCrm ==
  /\ RestGate
  /\ RestWorker /\ RestCall /\ RestProviders /\ RestJobs /\ InitCrm
  /\ RestQuota /\ RestAnalysis /\ RestBackoff /\ RestWebhooks

SpecCrm == InitSpecCrm /\ [][NextCrm]_vars

\* The tenant's CRM configuration and its concurrent sync attempts.
InitSpecQuota ==
  /\ RestGate
  /\ RestWorker /\ RestCall /\ RestProviders /\ RestJobs /\ RestCrm
  /\ InitQuota /\ RestAnalysis /\ RestBackoff /\ RestWebhooks

SpecQuota == InitSpecQuota /\ [][NextQuota]_vars

\* One analysis, over every answer of the provider.
InitSpecAnalysis ==
  /\ RestGate
  /\ RestWorker /\ RestCall /\ RestProviders /\ RestJobs /\ RestCrm
  /\ RestQuota /\ InitAnalysis /\ RestBackoff /\ RestWebhooks

SpecAnalysis == InitSpecAnalysis /\ [][NextAnalysis]_vars

\* The retries of the self-retrying tasks and their countdowns.
InitSpecBackoff ==
  /\ RestGate
  /\ RestWorker /\ RestCall /\ RestProviders /\ RestJobs /\ RestCrm
  /\ RestQuota /\ RestAnalysis /\ InitBackoff /\ RestWebhooks

SpecBackoff == InitSpecBackoff /\ [][NextBackoff]_vars

\* One delivery of trigger_webhooks. Celery runs a queued task and a
\* scheduled retry, and httpx.post has a timeout, so a step that can be
\* taken is taken.
InitSpecWebhooks ==
  /\ RestGate
  /\ RestWorker /\ RestCall /\ RestProviders /\ RestJobs /\ RestCrm
  /\ RestQuota /\ RestAnalysis /\ RestBackoff /\ InitWebhooks

SpecWebhooks ==
  InitSpecWebhooks /\ [][NextWebhooks]_vars /\ WF_vars(NextWebhooks)

\* The Call model under a caller that starts each run with
\* mark_as_processing and re-runs a failed call through can_retry.
InitSpecCallGated ==
  /\ InitGate
  /\ RestWorker /\ InitCall /\ RestProviders /\ RestJobs /\ RestCrm
  /\ RestQuota /\ RestAnalysis /\ RestBackoff /\ RestWebhooks

SpecCallGated == InitSpecCallGated /\ [][NextCallGated]_vars

\* The CRMConfig row under its own methods.
InitSpecCrmConfig ==
  /\ RestGate
  /\ RestWorker /\ RestCall /\ RestProviders /\ RestJobs /\ RestCrm
  /\ InitQuota /\ RestAnalysis /\ RestBackoff /\ RestWebhooks

SpecCrmConfig == InitSpecCrmConfig /\ [][NextCrmConfig]_vars

\* ================================================================= claims
\* The call record as the claims see it: its status and attached results.
record == <<status, transcripts, insights, quality_metrics>>

\* Positions of a delivery whose task body is running.
InFlight == {"transcribe", "analyze", "trigger", "except"}

\* Positions of a delivery that has committed its Insight and QualityMetric
\* rows and the status "completed".
Attached == {"trigger", "done"}

\* ---- C1 ----------------------------------------------------------------
\* The transition graph of the claim, read generously: "queued" counts as
\* PENDING, "updating_crm" as SYNCING_CRM, and a stage may be skipped
\* forward; whatever this graph forbids, the claim's graph forbids.
Rank(s) ==
  CASE s \in {"pending", "queued"} -> 0
    [] s = "processing" -> 1
    [] s = "transcribing" -> 2
    [] s = "analyzing" -> 3
    [] s \in {"updating_crm", "sending_email"} -> 4
    [] s = "completed" -> 5
    [] OTHER -> 6

Terminal == {"completed", "failed", "cancelled"}

GraphEdge(a, b) ==
  \/ a \notin Terminal /\ b \notin Terminal /\ Rank(a) <= Rank(b)
  \/ a \notin Terminal /\ b \in Terminal
  \/ a = "failed" /\ Rank(b) = 0

\* C1: every change of the call's status follows an edge of the transition
\* graph; COMPLETED, FAILED and CANCELLED are left only by the reset from
\* FAILED.
C1_StatusFollowsGraph ==
  [][status' # status => GraphEdge(status, status')]_vars

\* ---- C2 ----------------------------------------------------------------
\* C2: when the broker delivers again the message of a run that has already
\* returned, the handler's step leaves the call's status and its attached
\* transcript, insight and quality rows as they were.
C2_RedeliveryIsNoOp ==
  [][\A u \in Tasks :
       (dup[u][2] = "returned" /\ pc[u] = "queued" /\ pc'[u] # pc[u])
         => record' = record]_vars

\* ---- C3 ----------------------------------------------------------------
\* C3: of a delivery and a second delivery of the same message made while
\* the first was running, at most one attaches results and completes the
\* call.
C3_AtMostOneDeliveryAttaches ==
  \A u \in Tasks :
    dup[u][2] = "running"
      => ~(pc[u] \in Attached /\ pc[dup[u][1]] \in Attached)

\* ---- C8 ----------------------------------------------------------------
\* C8: when transcription has failed in every run and the retries are used
\* up, the call is FAILED, its error detail is recorded, and the task body
\* has run max_attempts times.
C8_ExhaustionRecorded ==
  \A t \in Tasks :
    (pc[t] = "dead" /\ recording_url /\ transcripts = 0 /\ status = "failed")
      => (processing_error # NULL /\ retries[t] + 1 = max_attempts)

\* ---- C9 ----------------------------------------------------------------
\* C9: a step of a delivery that is in flight while the call is CANCELLED
\* leaves the status CANCELLED and attaches no row.
C9_CancelledStaysCancelled ==
  [][\A t \in Tasks :
       (status = "cancelled" /\ pc[t] \in InFlight /\ pc'[t] # pc[t])
         => record' = record]_vars

\* ---- C10 ---------------------------------------------------------------
\* What a reset may not touch when it is rejected; the timestamps are left
\* out, so whatever this forbids the claim forbids.
resetView(c) == <<c.status, c.processing_error, c.insights, c.quality_metrics>>

\* C10: a reset for retry (Call.reset_for_retry, or a reprocess operation)
\* changes the call only when its status is FAILED and processing_attempts
\* is below max_attempts; otherwise the call is left as it is.
C10_ResetOnlyWhenRetryable ==
  [][(reset_for_retry \/ endpoint_reprocess_call \/ service_reprocess_call)
       => (can_retry(call, max_attempts) \/ resetView(call') = resetView(call))]_vars

\* ---- C6 ----------------------------------------------------------------
\* The priority-ordered list of the configured providers: the primary
\* first, then the others whose key is set, in the order the code names
\* them.
PriorityList(cfg, order) ==
  SelectSeq(<<cfg.primary>> \o SelectSeq(order, LAMBDA p : p # cfg.primary),
            LAMBDA p : p \in cfg.keys)

\* Position of the first provider of the list that answers, 0 if none does.
FirstHealthy(list, cfg) ==
  IF \E i \in 1..Len(list) : list[i] \in cfg.healthy
    THEN CHOOSE i \in 1..Len(list) :
           /\ list[i] \in cfg.healthy
           /\ \A k \in 1..(i - 1) : list[k] \notin cfg.healthy
    ELSE 0

\* Providers 1..k-1 fail and provider k succeeds: provider k's result is
\* returned and no provider after k is called.
ReturnsFirstHealthy(list, cfg, out) ==
  LET k == FirstHealthy(list, cfg)
  IN  (out # NotInvoked /\ k > 0)
        => /\ out.result = list[k]
           /\ \A i \in 1..Len(out.calls) :
                \E m \in 1..k : out.calls[i] = list[m]

TranscriptionOrder == <<"deepgram", "assemblyai", "whisper">>

AIOrder == <<"anthropic", "openai", "gemini">>

\* C6: transcribe_audio and analyze_call return the result of the first
\* provider of the priority list that succeeds and call no provider after
\* it.
C6_ReturnsFirstHealthyProvider ==
  /\ ReturnsFirstHealthy(PriorityList(t_in, TranscriptionOrder), t_in, t_out)
  /\ ReturnsFirstHealthy(PriorityList(a_in, AIOrder), a_in, a_out)

\* ---- C7 ----------------------------------------------------------------
\* C7: a job whose analysis succeeded and whose CRM adapter then failed is
\* COMPLETED, with the failed sync recorded beside the result.
C7_CrmFailureKeepsCompleted ==
  \A j \in Jobs :
    (jpc[j] = "done" /\ jobs[j].crm_sync_status = "KeyError")
      => (jobs[j].status = "COMPLETED" /\ jobs[j].analysis_result # NULL)

\* ---- C4 ----------------------------------------------------------------
\* C4: running the CRM sync for the same call more than once never leaves
\* more than one remote contact record for a prospect whose email and
\* company the analysis found.
C4_AtMostOneRemoteContact ==
  (prospect.email /\ prospect.company_name) => remote <= 1

\* ---- C5 ----------------------------------------------------------------
\* The attempts that loaded quota_used = quota_limit - 1, passed can_sync
\* and incremented the counter.
PassedAtLastUnit ==
  {a \in SyncAttempts :
     /\ qpc[a] = "synced"
     /\ crm_config.quota_limit # None
     /\ qcopy[a] = crm_config.quota_limit[1] - 1}

\* C5: of the sync attempts that run while quota_used = quota_limit - 1, at
\* most one passes can_sync and increments the counter, and quota_used never
\* exceeds quota_limit.
C5_AtMostOnePassesQuota ==
  /\ Cardinality(PassedAtLastUnit) <= 1
  /\ crm_config.quota_limit # None => crm_config.quota_used <= crm_config.quota_limit[1]

\* ---- C11 ---------------------------------------------------------------
\* C11: while the call is FAILED (no reset has changed its status), a retry
\* of process_call_recording that self.retry enqueued is not executed.
C11_FailedIsNotRetried ==
  [][\A t \in Tasks :
       (status = "failed" /\ retries[t] > 0 /\ pc[t] = "queued")
         => pc'[t] = "queued"]_vars

\* ---- C12 ---------------------------------------------------------------
\* C12: a call whose status is FAILED has an error detail recording the
\* stage failure.
C12_FailedHasErrorDetail == status = "failed" => processing_error # NULL

\* ---- C13 ---------------------------------------------------------------
\* C13: after any number of deliveries, retries and reprocess requests the
\* call has at most one transcript, one insight and one quality result.
C13_AtMostOneResultEach ==
  transcripts <= 1 /\ insights <= 1 /\ quality_metrics <= 1

\* ---- C17 ---------------------------------------------------------------
\* C17: the step that hands the call.completed event to the webhook
\* dispatcher ends the task normally and leaves the call record alone,
\* also when the hand-over fails; the stage is not failed or retried.
C17_WebhookFailureLeavesCallAlone ==
  [][\A t \in Tasks :
       (pc[t] = "trigger" /\ pc'[t] # pc[t])
         => (pc'[t] = "done" /\ record' = record)]_vars

\* ---- C14 ---------------------------------------------------------------
\* An analysis of the fixed shape: the summary is there, the sentiment
\* score is in [1,10] and the quality score in [1,5].
ValidAnalysis(r) ==
  /\ r.summary # NULL
  /\ r.sentiment_score # None /\ r.sentiment_score[1] \in 1..10
  /\ r.quality_score # None /\ r.quality_score[1] \in 1..5

\* C14: analyze_call returns, and the pipeline stores, only an analysis
\* with its required fields and its scores in range, and no default value
\* stands in for an absent field.
C14_OnlyValidAnalysisAccepted ==
  /\ apc \in {"returned", "stored"} => ValidAnalysis(returned)
  /\ apc = "stored" => (ValidAnalysis(stored)
                          /\ stored.questions_asked = returned.questions_asked)

\* ---- C15 ---------------------------------------------------------------
NoRepeat(calls) ==
  \A i, j \in 1..Len(calls) : i # j => calls[i] # calls[j]

\* C15: within one invocation of transcribe_audio or of analyze_call no
\* provider is called more than once.
C15_NoProviderCalledTwice ==
  /\ NoRepeat(t_out.calls)
  /\ NoRepeat(a_out.calls)

\* Both invocations fell back to a second provider.
C15_Witness == Len(t_out.calls) = 2 /\ Len(a_out.calls) = 2

\* ---- C16 ---------------------------------------------------------------
\* The largest countdown the decorators' max_retries allow: the exponential
\* one of call_processing.py at the last retry that is scheduled.
RetryCeiling == 60 * (2 ^ (max_retries - 1))

C18_DeliveryAttemptsBounded ==
  /\ [](\A w \in Webhooks : posts[w] <= webhook_max_retries + 1)
  /\ [][wpc = "dead" => posts' = posts]_vars
  /\ <>(wpc \in {"done", "dead"})

\* The retries are used up and a webhook was posted to on every run.
C18_Witness ==
  wpc = "dead" /\ \E w \in Webhooks : posts[w] = webhook_max_retries + 1

\* ---- C19 ---------------------------------------------------------------
\* C19: a sync that was deferred is no longer refused once the reset time
\* has passed (the CRM being connected).
C19_NotRefusedAfterReset ==
  \A a \in SyncAttempts :
    (/\ qpc[a] = "deferred"
     /\ is_connected(crm_config)
     /\ crm_config.rate_limit_reset = "past")
      => can_sync(crm_config)

\* ---- C20 ---------------------------------------------------------------
\* The stage results attached to the call.
results(c) == <<c.insights, c.quality_metrics, c.crm_update_result>>

C26_RetrySkipsTranscription ==
  [][\A t \in Tasks :
       (retries[t] > 0 /\ transcripts >= 1
          /\ pc[t] = "transcribe" /\ pc'[t] # pc[t])
         => transcripts' = transcripts]_vars

\* ---- C27 ---------------------------------------------------------------
\* Every delivery there is has ended, and at least one has.
AllDeliveriesEnded ==
  /\ \A t \in Tasks : pc[t] \in {"idle", "done", "dead"}
  /\ \E t \in Tasks : pc[t] \in {"done", "dead"}

\* C27: once the worker has ended every job the API enqueued and no request
\* is in progress, the call does not show "queued".
C27_QueuedNeverOverwritesWorker ==
  (AllDeliveriesEnded /\ apiPc = "idle") => status # "queued"

\* ---- C22 ---------------------------------------------------------------
\* C22: a webhook that was posted to is of the event's organization, is
\* active and has the event type in its events.
C22_OnlyMatchingSubscriptions ==
  \A w \in Webhooks :
    posts[w] > 0 =>
      (webhooks[w].own /\ webhooks[w].is_active /\ webhooks[w].subscribed)

\* The task has returned, one webhook was posted to and another row,
\* inactive but subscribed, was not.
C22_Witness ==
  /\ wpc = "done"
  /\ \E w \in Webhooks : posts[w] > 0
  /\ \E w \in Webhooks :
       /\ webhooks[w].own /\ webhooks[w].subscribed /\ ~webhooks[w].is_active
       /\ posts[w] = 0

\* ---- C23 ---------------------------------------------------------------
\* C23: when the dispatch has ended, also with a webhook that never
\* succeeded, every selected webhook has been posted to at least once.
C23_EverySubscriptionAttempted ==
  wpc \in {"done", "dead"} =>
    \A w \in Webhooks : webhook_selected(webhooks[w]) => posts[w] >= 1

\* ---- C24 ---------------------------------------------------------------
\* C24: a webhook that has answered 2xx for the event is not posted to
\* again.
C24_NoRepeatAfterSuccess ==
  [][\A w \in Webhooks : delivered[w] >= 1 => posts'[w] = posts[w]]_vars

\* ---- C28 ---------------------------------------------------------------
\* C28: when every upsert_contact for a prospect with an email has
\* finished, each after a search that answered without error, at most one
\* remote contact with that email exists.
C28_ConcurrentUpsertsCreateOnce ==
  (/\ prospect.email
   /\ \A r \in SyncRuns :
        spc[r] = "done" /\ searched[r] \in {"found", "not_found"})
    => remote <= 1

\* ---- C21 ---------------------------------------------------------------
\* C21: once a sync of the call has written the prospect to the CRM, a CRM
\* sync result with a non-null entity id is stored.
C21_SyncResultHasEntityId ==
  remote > 0 => sync_logs > 0

\* ---- C25 ---------------------------------------------------------------
\* C25: a run of sync_call_to_crm that ends in success raises the quota
\* counter by exactly one.
C25_SuccessfulSyncCountsQuota ==
  [][\A r \in SyncRuns :
       (spc[r] = "sync" /\ spc'[r] = "done")
         => crm_config'.quota_used = crm_config.quota_used + 1]_vars

\* ---- C29 ---------------------------------------------------------------
\* C29: under a caller that starts every run with mark_as_processing and
\* re-runs a failed call only when can_retry allows it, processing_attempts
\* never exceeds the limit passed to can_retry, and no step decreases it.
C29_AttemptsBoundedUnderGate ==
  /\ [](call.processing_attempts <= attempts_limit)
  /\ [][call'.processing_attempts >= call.processing_attempts]_vars

\* A call that was re-run until the limit and failed again.
C29_Witness ==
  /\ call.status = "failed"
  /\ call.processing_attempts = attempts_limit
  /\ attempts_limit > 1

\* ---- C30 ---------------------------------------------------------------
\* The two operations that record a success.
SuccessRecorded ==
  test_connection(TRUE) \/ sync_status_recorded("success")

\* C30: while the status that update_sync_status("failed") leaves stands,
\* can_sync is false, and a step from such a state other than
\* update_sync_status("success") and test_connection(True) leaves the status
\* and can_sync false.
C30_FailedBlocksSyncUntilSuccess ==
  /\ [](crm_config.connection_status = "error" => ~can_sync(crm_config))
  /\ [][(crm_config.connection_status = "error" /\ ~SuccessRecorded)
          => (/\ crm_config'.connection_status = "error"
              /\ ~can_sync(crm_config'))]_vars

\* After update_sync_status("failed") the quota was counted, the rate limit
\* left room and a field was mapped, and the status still stands.
C30_Witness ==
  /\ crm_config.last_sync_status = "failed"
  /\ crm_config.connection_status = "error"
  /\ crm_config.quota_used > 0
  /\ crm_config.rate_limit_remaining # None
  /\ crm_config.rate_limit_remaining[1] > 0
  /\ crm_config.field_mappings # {}

====
